---- MODULE Spec2Model ----
(***************************************************************************)
(* HTTPfs translation layer (src/parser.py): Directory.contents, the       *)
(* File constructor, File.read and File.attributes, with the HTTP server   *)
(* as the environment that answers each request.                           *)
(*                                                                         *)
(* Text is a sequence of one-character strings ("d/" is <<"d", "/">>), so  *)
(* split, join, strip and the substring test are computed, not assumed.    *)
(* A bytes value is a run of the remote file's bytes (or of an error       *)
(* page's), given by where it starts and how long it is; slicing such a    *)
(* run is exact, so the real 1 MiB arithmetic is kept.                     *)
(***************************************************************************)
EXTENDS Integers, Sequences, FiniteSets, TLC

VARIABLES
    readdir_cache,  \* httpfs.readdir_cache: directory path -> parsed contents
    file,           \* the File object last constructed (NoFile before any)
    last,           \* the last call made, what it raised or returned, the requests it sent
    calls,          \* parity of the number of calls made so far
    stores,         \* per directory path, how often a listing was stored in readdir_cache
    page,           \* the listing page handed to the parser (parser specification)
    parsed,         \* what Directory.contents made of `page`
    threads         \* per thread, where its File.__init__ call stands and its locals

vars == <<readdir_cache, file, last, calls, stores, page, parsed, threads>>

----------------------------------------------------------------------------
(* Bounds of the model. *)

\* Rows per listing page in the parser specification.
MaxRows == 2
\* Size of the remote file, in 1 MiB blocks.
FileBlocks == 2

\* Number of threads of the binding that call into the module.
NThreads == 2

----------------------------------------------------------------------------
(* Python text operations. *)

Min(a, b) == IF a <= b THEN a ELSE b

Front(s) == SubSeq(s, 1, Len(s) - 1)

Last(s) == s[Len(s)]

\* s.split("/"): always at least one part.
RECURSIVE Split(_)
Split(s) ==
    IF s = <<>> THEN << <<>> >>
    ELSE LET r == Split(Tail(s)) IN
         IF Head(s) = "/" THEN << <<>> >> \o r
         ELSE << <<Head(s)>> \o Head(r) >> \o Tail(r)

\* "/".join(parts)
RECURSIVE Join(_)
Join(parts) ==
    IF parts = <<>> THEN <<>>
    ELSE IF Len(parts) = 1 THEN parts[1]
    ELSE parts[1] \o <<"/">> \o Join(Tail(parts))

RECURSIVE LStrip(_)
LStrip(s) == IF s # <<>> /\ Head(s) = "/" THEN LStrip(Tail(s)) ELSE s

RECURSIVE RStrip(_)
RStrip(s) == IF s # <<>> /\ Last(s) = "/" THEN RStrip(Front(s)) ELSE s

\* A mutant of Strip: the separator is left in place.
StripNothing(s) == s

\* s.strip("/"): every leading and every trailing "/" goes.
Strip(s) == RStrip(LStrip(s))

\* sub in s
Contains(sub, s) ==
    \E i \in 0..(Len(s) - Len(sub)) : SubSeq(s, i + 1, i + Len(sub)) = sub

----------------------------------------------------------------------------
(* Listing pages as BeautifulSoup sees them.  A row is one <tr>:            *)
(*   ntd   the number of <td> cells (0: a header row of <th> cells)         *)
(*   img   the first cell holds an <img>                                    *)
(*   alt   the image's alt text (NoAlt: the attribute is missing)           *)
(*   a     the second cell holds a link                                     *)
(*   text  the link's text                                                  *)
(*   mtime the third cell's timestamp, parsed with "%Y-%m-%d %H:%M"         *)
(*         (BadTime: the text does not have that format)                    *)

NoAlt == "(no alt)"
BadTime == -1

Alts == {"[DIR]", "[PARENTDIR]", "[TXT]"}

Row(ntd, img, alt, a, text, mtime) ==
    [ntd |-> ntd, img |-> img, alt |-> alt, a |-> a, text |-> text, mtime |-> mtime]

HeaderRow == Row(0, FALSE, NoAlt, FALSE, <<>>, BadTime)

\* What a contents() call gives: the exception raised ("none": it returned)
\* and the value returned.
Returned(v) == [exc |-> "none", value |-> v]
Raised(e) == [exc |-> e, value |-> <<>>]

\* x.td is not None and x.td.img['alt'] != "[PARENTDIR]"
IsData(x) ==
    IF x.ntd = 0 THEN Returned(FALSE)
    ELSE IF ~x.img THEN Raised("TypeError")
    ELSE IF x.alt = NoAlt THEN Raised("KeyError")
    ELSE Returned(x.alt # "[PARENTDIR]")

\* x.find_all('td')[1].a.string
LinkText(x) ==
    IF x.ntd < 2 THEN Raised("IndexError")
    ELSE IF ~x.a THEN Raised("AttributeError")
    ELSE Returned(x.text)

\* One turn of the loop of contents(): the entry appended for row x, if any.
Entry(x) ==
    LET d == IsData(x) IN
    IF d.exc # "none" THEN d
    ELSE IF ~d.value THEN Returned(<<>>)
    ELSE LET t == LinkText(x) IN
         IF t.exc # "none" THEN t
         ELSE Returned(<< <<Strip(t.value), x.alt = "[DIR]">> >>)

RECURSIVE Scan(_, _)
Scan(rows, acc) ==
    IF rows = <<>> THEN Returned(acc)
    ELSE LET e == Entry(Head(rows)) IN
         IF e.exc # "none" THEN e
         ELSE Scan(Tail(rows), acc \o e.value)

Dot == <<".">>
DotDot == <<".", ".">>

\* Directory.contents() on the page the GET returned.  The response's
\* status is not looked at.
Contents(rows) == Scan(rows, << <<Dot, TRUE>>, <<DotDot, TRUE>> >>)

----------------------------------------------------------------------------
(* Bytes.  [src, start, len]: len bytes of the remote file (src = "file")   *)
(* or of an error page (src = "error"), from position start on.  The empty  *)
(* value is the same whatever it was cut from.                              *)

KB == 1024
MB == KB * KB

Bytes(src, start, len) ==
    IF len <= 0 THEN [src |-> "file", start |-> 0, len |-> 0]
    ELSE [src |-> src, start |-> start, len |-> len]

\* c[i:j] for 0 <= i <= j
Slice(c, i, j) == Bytes(c.src, c.start + Min(i, c.len), Min(j, c.len) - Min(i, c.len))

\* The remote file and the body of an error response.
FileSize == FileBlocks * MB
WholeFile == Bytes("file", 0, FileSize)
ErrorBody == Bytes("error", 0, 162)

----------------------------------------------------------------------------
(* The server.  Each request is answered by one of the responses below;     *)
(* the remote side may fail or change between requests.                     *)

Response(status, content) == [status |-> status, content |-> content]

\* A server that honours "Range: bytes=lo-hi" (RFC 7233): an unsatisfiable
\* range is refused with 416, a malformed one (hi < lo) is ignored.
Honoured(lo, hi) ==
    IF hi < lo THEN Response(200, WholeFile)
    ELSE IF lo >= FileSize THEN Response(416, ErrorBody)
    ELSE Response(206, Bytes("file", lo, Min(hi, FileSize - 1) - lo + 1))

\* Every answer a range GET can get: honoured, ignored (200 and the whole
\* file), or an error status with an error page.
RangeResponses(lo, hi) ==
    {Honoured(lo, hi), Response(200, WholeFile), Response(404, ErrorBody)}

\* Listing pages the server can send.
ParentRow == Row(5, TRUE, "[PARENTDIR]", TRUE, <<"P">>, BadTime)
IndexPage ==
    << HeaderRow, ParentRow,
       Row(5, TRUE, "[DIR]", TRUE, <<"d", "/">>, 10),
       Row(5, TRUE, "[TXT]", TRUE, <<"f">>, 20) >>
EmptyIndex == << HeaderRow, ParentRow >>
PlainPage == << Row(1, FALSE, NoAlt, FALSE, <<>>, BadTime) >>

ListingResponses ==
    {[status |-> 200, rows |-> p] : p \in {IndexPage, EmptyIndex, PlainPage}}
      \cup {[status |-> 404, rows |-> <<>>]}

\* Answers to the HEAD probe: the status and the two headers read.
NoHeader == -2
HeadResponses ==
    {[status |-> 200, clen |-> c, lastmod |-> m] :
        c \in {NoHeader, FileSize}, m \in {NoHeader, BadTime, 50}}
      \cup {[status |-> s, clen |-> NoHeader, lastmod |-> NoHeader] : s \in {403, 404}}

----------------------------------------------------------------------------
(* Requests, as recorded in `last`.  why: "populate" (the listing GET of    *)
(* line 56), "probe" (HEAD), "mtime" (the listing GET of line 77), "block"  *)
(* and "span" (the range GETs of read); status: the status of the answer;    *)
(* answer: the whole answer.                                                *)

NoRange == -1
Request(method, url, lo, hi, why, resp) ==
    [method |-> method, url |-> url, lo |-> lo, hi |-> hi, why |-> why,
     status |-> resp.status, answer |-> resp]

ListingUrl(dir) == <<"/">> \o dir \o <<"/">>
ListingGet(dir, why, resp) ==
    Request("GET", ListingUrl(dir), NoRange, NoRange, why, resp)

----------------------------------------------------------------------------
(* File.__init__ *)

NoneTime == -2
Unset == -3
\* time.time()
Now == 100

ParentDir(path) == Join(Front(Split(path)))
FileName(path) == Last(Split(path))

\* A mutant of NeedsListing: the listing is fetched on every call.
NeedsListingAlways(cache, dir) == TRUE

\* parent_dir not in httpfs.readdir_cache.keys()
NeedsListing(cache, dir) == dir \notin DOMAIN cache

\* names of the directory-flagged entries
DirNames(listing) == {listing[i][1] : i \in {j \in DOMAIN listing : listing[j][2]}}

\* A mutant of IsDir: the empty name is not taken for a directory.
IsDirListedOnly(listing, filename) == filename \in DirNames(listing)

\* filename in dirs or filename == ""
IsDir(listing, filename) == filename \in DirNames(listing) \/ filename = <<>>

FileUrl(path, is_dir) == <<"/">> \o path \o (IF is_dir THEN <<"/">> ELSE <<>>)

\* A mutant of DefaultMtime: the flag is ignored, every path gets the
\* time of the call.
DefaultMtimeNow(is_dir, dirmtime) == Now

\* A mutant of DefaultMtime: the flag leaves files without mtime too.
DefaultMtimeAnyPath(is_dir, dirmtime) == IF dirmtime THEN NoneTime ELSE Now

\* None if self.is_dir and self.dirmtime else time.time()
DefaultMtime(is_dir, dirmtime) == IF is_dir /\ dirmtime THEN NoneTime ELSE Now

\* The loop of lines 79-83 over the rows of the re-fetched page: the mtime
\* of the last row whose link text contains filename.
RECURSIVE MtimeScan(_, _, _)
MtimeScan(rows, filename, m) ==
    IF rows = <<>> THEN Returned(m)
    ELSE LET x == Head(rows)
             d == IsData(x)
             t == LinkText(x)
         IN IF d.exc # "none" THEN d
            ELSE IF ~d.value THEN MtimeScan(Tail(rows), filename, m)
            ELSE IF t.exc # "none" THEN t
            ELSE IF ~Contains(filename, t.value) THEN MtimeScan(Tail(rows), filename, m)
            ELSE IF x.ntd < 3 THEN Raised("IndexError")
            ELSE IF x.mtime = BadTime THEN Raised("ValueError")
            ELSE MtimeScan(Tail(rows), filename, x.mtime)

\* self.size after the probe
ProbedSize(head) ==
    IF head.status = 200 /\ head.clen # NoHeader THEN head.clen ELSE 0

NoFile == [path |-> <<>>, is_dir |-> FALSE, url |-> <<>>, status |-> 0, size |-> 0,
           mtime |-> Unset, dirmtime |-> FALSE, readbuffer |-> <<>>, open |-> FALSE]

\* The constructor.  lresp answers the listing GET (if one is sent), head
\* the probe, mresp the second listing GET (if one is sent).  Gives the
\* exception raised, the cache and the object afterwards, the requests, and
\* whether a listing was stored in the cache.
FileInit(path, dirmtime, cache, lresp, head, mresp) ==
    LET parent_dir == ParentDir(path)
        filename == FileName(path)
        fetch == NeedsListing(cache, parent_dir)
        c == IF fetch THEN Contents(lresp.rows) ELSE Returned(<<>>)
        gets1 == IF fetch THEN <<ListingGet(parent_dir, "populate", lresp)>> ELSE <<>>
    IN
    IF c.exc # "none"
    THEN [exc |-> c.exc, cache |-> cache, file |-> NoFile, gets |-> gets1, stored |-> FALSE]
    ELSE
    LET cache1 == IF fetch THEN (parent_dir :> c.value) @@ cache ELSE cache
        is_dir == IsDir(cache1[parent_dir], filename)
        url == FileUrl(path, is_dir)
        gets2 == gets1 \o <<Request("HEAD", url, NoRange, NoRange, "probe", head)>>
        mtime1 == IF head.lastmod # NoHeader THEN head.lastmod
                  ELSE DefaultMtime(is_dir, dirmtime)
        fallback == head.status = 200 /\ mtime1 = NoneTime
        scan == IF fallback THEN MtimeScan(mresp.rows, filename, NoneTime)
                ELSE Returned(mtime1)
        gets3 == IF fallback THEN gets2 \o <<ListingGet(parent_dir, "mtime", mresp)>> ELSE gets2
        f == [path |-> path, is_dir |-> is_dir, url |-> url, status |-> head.status,
              size |-> ProbedSize(head),
              mtime |-> IF head.status = 200 THEN scan.value ELSE Unset,
              dirmtime |-> dirmtime, readbuffer |-> <<>>, open |-> TRUE]
    IN
    IF head.status = 200 /\ head.lastmod = BadTime
    THEN [exc |-> "ValueError", cache |-> cache1, file |-> NoFile, gets |-> gets2,
          stored |-> fetch]
    ELSE IF scan.exc # "none"
    THEN [exc |-> scan.exc, cache |-> cache1, file |-> NoFile, gets |-> gets3,
          stored |-> fetch]
    ELSE [exc |-> "none", cache |-> cache1, file |-> f, gets |-> gets3, stored |-> fetch]

----------------------------------------------------------------------------
(* File.read *)

\* mb_start, mb_end and offset_from_mb of lines 99-101
MbStart(offset) == (offset \div KB) \div KB
MbEnd(offset, length) == ((offset + length) \div KB) \div KB
OffsetFromMb(offset) == (((offset \div KB) % KB) * KB) + (offset % KB)

\* The byte range asked for to fill block mb_start (line 107).
BlockLo(mb_start) == mb_start * KB * KB

\* A mutant of BlockHi: the range ends one byte earlier.
BlockHiShort(mb_start) == (mb_start * KB * KB) + (1023 * KB) - 1

BlockHi(mb_start) == (mb_start * KB * KB) + (1023 * KB)

\* The byte range asked for by a spanning read (line 125).
SpanLo(offset) == offset

\* A mutant of SpanHi: the range is not clamped to the size.
SpanHiUnclamped(size, offset, length) == offset + length - 1

\* min(self.size, offset + length - 1)
SpanHi(size, offset, length) == Min(size, offset + length - 1)

\* A mutant of BlockOk: every answer is taken for the block.
BlockOkAlways(r) == TRUE

\* The success tests of lines 111 and 129.
BlockOk(r) == r.status = 200 \/ r.status = 206
SpanOk(probe_status, r) == probe_status = 200 \/ r.status = 206

\* A mutant of Cached: the buffer is never taken to hold the block.
CachedNever(readbuffer, mb_start) == FALSE

\* self.readbuffer[mb_start] is not None
Cached(readbuffer, mb_start) == mb_start \in DOMAIN readbuffer

\* A mutant of SpanBuffer: the spanning branch keeps the body it got as
\* the block the read starts in.
SpanBufferFilled(f, offset, r) ==
    IF r.status = 200 \/ r.status = 206
    THEN (MbStart(offset) :> r.content) @@ f.readbuffer
    ELSE f.readbuffer

\* self.readbuffer after the spanning branch: it is not assigned there.
SpanBuffer(f, offset, r) == f.readbuffer

\* The requests of the spanning branch.
SpanGets(f, offset, length, r) ==
    << Request("GET", <<"/">> \o f.path, SpanLo(offset),
               SpanHi(f.size, offset, length), "span", r) >>

\* read(length, offset) on File f, the server answering the range GET (if
\* one is sent) with r.  Gives the exception raised, the bytes returned,
\* the buffer afterwards and the requests.
Read(f, offset, length, r) ==
    LET mb_start == MbStart(offset)
        mb_end == MbEnd(offset, length)
        offset_from_mb == OffsetFromMb(offset)
        url == <<"/">> \o f.path
    IN
    IF mb_start = mb_end
    THEN IF ~Cached(f.readbuffer, mb_start)
         THEN LET gets == <<Request("GET", url, BlockLo(mb_start), BlockHi(mb_start), "block", r)>>
              IN IF BlockOk(r)
                 THEN [exc |-> "none",
                       value |-> Slice(r.content, offset_from_mb, offset_from_mb + length),
                       readbuffer |-> (mb_start :> r.content) @@ f.readbuffer,
                       gets |-> gets]
                 ELSE [exc |-> "EIO", value |-> Bytes("file", 0, 0),
                       readbuffer |-> f.readbuffer, gets |-> gets]
         ELSE [exc |-> "none",
               value |-> Slice(f.readbuffer[mb_start], offset_from_mb, offset_from_mb + length),
               readbuffer |-> f.readbuffer, gets |-> <<>>]
    ELSE IF SpanOk(f.status, r)
         THEN [exc |-> "none", value |-> r.content, readbuffer |-> SpanBuffer(f, offset, r),
               gets |-> SpanGets(f, offset, length, r)]
         ELSE [exc |-> "EIO", value |-> Bytes("file", 0, 0),
               readbuffer |-> SpanBuffer(f, offset, r),
               gets |-> SpanGets(f, offset, length, r)]

\* The range the GET of read(length, offset) asks for, if it sends one.
ReadLo(f, offset, length) ==
    IF MbStart(offset) = MbEnd(offset, length) THEN BlockLo(MbStart(offset)) ELSE SpanLo(offset)
ReadHi(f, offset, length) ==
    IF MbStart(offset) = MbEnd(offset, length) THEN BlockHi(MbStart(offset))
    ELSE SpanHi(f.size, offset, length)

----------------------------------------------------------------------------
(* File.attributes *)

\* A mutant of ProbeFailed: only a 404 counts as a failed probe.
ProbeFailedOn404(f) == f.status = 404

\* self.r.status_code != 200
ProbeFailed(f) == f.status # 200

\* st_nlink 0 stands for the key being absent.
Attributes(f) ==
    IF ProbeFailed(f) THEN [exc |-> "ENOENT", value |-> <<>>]
    ELSE [exc |-> "none",
          value |-> [st_atime |-> f.mtime,
                     st_mode |-> IF f.is_dir THEN "S_IFDIR|0o777" ELSE "S_IFREG|0o666",
                     st_mtime |-> f.mtime,
                     st_size |-> f.size,
                     st_nlink |-> IF f.is_dir THEN 2 ELSE 0]]

----------------------------------------------------------------------------
(* Inputs. *)

Paths == {<<>>, <<"f">>, <<"d">>, <<"d", "/", "f">>}
\* The paths File objects are read on: the two names of the root's index.
ReadPaths == {<<"f">>, <<"d">>}

Offsets == {b * MB + d : b \in 0..(FileBlocks - 1), d \in {0, 1023 * KB, MB - 6}}
Lengths == {1, 6, 20}

\* The record of a call: what was called with which arguments, what was
\* raised, what was returned, the requests sent, and whether the block
\* buffer of the object was empty when the call began.
Call(op, args, exc, value, gets, cold) ==
    [op |-> op, args |-> args, exc |-> exc, value |-> value, gets |-> gets, cold |-> cold]

NoCall == Call("none", <<>>, "none", <<>>, <<>>, TRUE)

----------------------------------------------------------------------------
(* The calls the FUSE binding makes. *)

\* The responses a constructor call consumes: the listing GETs get an
\* answer only when they are sent.
NoListing == [status |-> 0, rows |-> <<>>]
PopulateResponses(cache, path) ==
    IF NeedsListing(cache, ParentDir(path)) THEN ListingResponses ELSE {NoListing}
FallbackResponses(dirmtime, head) ==
    IF dirmtime /\ head.status = 200 /\ head.lastmod = NoHeader
    THEN ListingResponses ELSE {NoListing}

Count(counter, key) == IF key \in DOMAIN counter THEN counter[key] ELSE 0

\* File(root, path, httpfs, session, dirmtime)
Resolve ==
    \E path \in Paths, dirmtime \in BOOLEAN, head \in HeadResponses :
      \E lresp \in PopulateResponses(readdir_cache, path),
         mresp \in FallbackResponses(dirmtime, head) :
        \E res \in {FileInit(path, dirmtime, readdir_cache, lresp, head, mresp)},
           dir \in {ParentDir(path)} :
           /\ readdir_cache' = res.cache
           /\ file' = IF res.exc = "none" THEN res.file ELSE file
           /\ last' = Call("resolve", <<path, dirmtime>>, res.exc, <<>>, res.gets, TRUE)
           /\ stores' = IF res.stored
                        THEN (dir :> (Count(stores, dir) + 1)) @@ stores
                        ELSE stores
           /\ calls' = 1 - calls
           /\ UNCHANGED <<page, parsed, threads>>

\* file.read(length, offset)
ReadFile ==
    /\ file.open
    /\ \E offset \in Offsets, length \in Lengths :
         \E r \in RangeResponses(ReadLo(file, offset, length), ReadHi(file, offset, length)) :
            \E res \in {Read(file, offset, length, r)} :
               /\ file' = [file EXCEPT !.readbuffer = res.readbuffer]
               /\ last' = Call("read", <<offset, length>>, res.exc, res.value, res.gets,
                               DOMAIN file.readbuffer = {})
               /\ calls' = 1 - calls
               /\ UNCHANGED <<readdir_cache, stores, page, parsed, threads>>

\* file.attributes()
GetAttributes ==
    /\ file.open
    /\ LET res == Attributes(file)
       IN /\ last' = Call("attributes", <<>>, res.exc, res.value, <<>>,
                          DOMAIN file.readbuffer = {})
          /\ calls' = 1 - calls
          /\ UNCHANGED <<readdir_cache, file, stores, page, parsed, threads>>

----------------------------------------------------------------------------
(* The session: File objects are constructed against the shared listing     *)
(* cache and asked for their attributes.                                    *)

\* The threads of the binding, and a thread that is in no call.
Threads == 1..NThreads
IdleThread == [pc |-> "idle", path |-> <<>>, dirmtime |-> FALSE, got |-> <<>>, gets |-> <<>>]
NoThreads == [t \in Threads |-> IdleThread]

Init ==
    /\ readdir_cache = <<>>
    /\ file = NoFile
    /\ last = NoCall
    /\ calls = 0
    /\ stores = <<>>
    /\ page = <<>>
    /\ parsed = Returned(<<>>)
    /\ threads = NoThreads

Next == Resolve \/ GetAttributes

Spec == Init /\ [][Next]_vars

----------------------------------------------------------------------------
(* One File object: it is constructed (in a session whose cache is still    *)
(* empty), then read and asked for its attributes.                          *)

InitFile ==
    \E path \in ReadPaths, dirmtime \in BOOLEAN, head \in HeadResponses :
      \E lresp \in PopulateResponses(<<>>, path),
         mresp \in FallbackResponses(dirmtime, head) :
        \E res \in {FileInit(path, dirmtime, <<>>, lresp, head, mresp)} :
           /\ res.exc = "none"
           /\ readdir_cache = res.cache
           /\ file = res.file
           /\ last = Call("resolve", <<path, dirmtime>>, res.exc, <<>>, res.gets, TRUE)
           /\ calls = 1
           /\ stores = (ParentDir(path) :> 1)
           /\ page = <<>>
           /\ parsed = Returned(<<>>)
           /\ threads = NoThreads

NextFile == ReadFile \/ GetAttributes

SpecFile == InitFile /\ [][NextFile]_vars

----------------------------------------------------------------------------
(* The parser alone: Directory.contents applied to every page of at most    *)
(* MaxRows rows built from the rows below.                                  *)

LinkTexts == {<<"a">>, <<"a", "/">>, <<"b", "/">>, <<"/", "a">>, <<"a", "/", "/">>}

ParserRows ==
    {HeaderRow,
     Row(1, FALSE, NoAlt, FALSE, <<>>, BadTime),
     Row(5, TRUE, NoAlt, TRUE, <<"a">>, 10)}
      \cup {Row(1, TRUE, alt, FALSE, <<>>, BadTime) : alt \in Alts}
      \cup {Row(5, TRUE, alt, FALSE, <<>>, 10) : alt \in Alts}
      \cup {Row(5, TRUE, alt, TRUE, text, 10) : alt \in Alts, text \in LinkTexts}

Pages == UNION {[1..n -> ParserRows] : n \in 0..MaxRows}

Pending == Raised("pending")

InitParse ==
    /\ page \in Pages
    /\ parsed = Pending
    /\ readdir_cache = <<>>
    /\ file = NoFile
    /\ last = NoCall
    /\ calls = 0
    /\ stores = <<>>
    /\ threads = NoThreads

\* Directory(root, path, session).contents(), the GET having returned `page`
ParsePage ==
    /\ parsed = Pending
    /\ parsed' = Contents(page)
    /\ UNCHANGED <<page, readdir_cache, file, last, calls, stores, threads>>

NextParse == ParsePage

SpecParse == InitParse /\ [][NextParse]_vars

----------------------------------------------------------------------------
(* Concurrent sessions: the binding's threads construct File objects       *)
(* against the one readdir_cache.  A constructor call is interleaved with  *)
(* the others wherever it waits for the server: between the test of line   *)
(* 55 and the GET of line 56, between that GET and the assignment of its   *)
(* result, and before the probe.                                           *)

\* Paths below one parent directory, the mount root.
ConcPaths == {<<"f">>, <<"d">>}

\* The calls leave dirmtime at its default (line 43).
ConcDirmtime == {FALSE}

\* Lines 43-55: the call starts and tests whether the parent is cached.
BeginResolve(t) ==
    /\ threads[t].pc = "idle"
    /\ \E path \in ConcPaths, dirmtime \in ConcDirmtime :
          threads' = [threads EXCEPT ![t] =
                        [pc |-> IF NeedsListing(readdir_cache, ParentDir(path))
                                THEN "fetch" ELSE "probe",
                         path |-> path, dirmtime |-> dirmtime,
                         got |-> <<>>, gets |-> <<>>]]
    /\ UNCHANGED <<readdir_cache, file, last, calls, stores, page, parsed>>

\* Line 56, right-hand side: Directory(...).contents() sends the GET and
\* parses the answer; an exception ends the call.
FetchListing(t) ==
    /\ threads[t].pc = "fetch"
    /\ \E lresp \in ListingResponses :
         \E c \in {Contents(lresp.rows)},
            get \in {ListingGet(ParentDir(threads[t].path), "populate", lresp)} :
            IF c.exc # "none"
            THEN /\ threads' = [threads EXCEPT ![t] = IdleThread]
                 /\ last' = Call("resolve", <<threads[t].path, threads[t].dirmtime>>,
                                 c.exc, <<>>, <<get>>, TRUE)
                 /\ calls' = 1 - calls
            ELSE /\ threads' = [threads EXCEPT ![t].pc = "store", ![t].got = c.value,
                                               ![t].gets = <<get>>]
                 /\ UNCHANGED <<last, calls>>
    /\ UNCHANGED <<readdir_cache, file, stores, page, parsed>>

\* Line 56, assignment: httpfs.readdir_cache[parent_dir] = <the contents>
StoreListing(t) ==
    /\ threads[t].pc = "store"
    /\ \E dir \in {ParentDir(threads[t].path)} :
          /\ readdir_cache' = (dir :> threads[t].got) @@ readdir_cache
          /\ stores' = (dir :> (Count(stores, dir) + 1)) @@ stores
    /\ threads' = [threads EXCEPT ![t].pc = "probe", ![t].got = <<>>]
    /\ UNCHANGED <<file, last, calls, page, parsed>>

\* Lines 58-86: the rest of the constructor, the parent being cached.
FinishResolve(t) ==
    /\ threads[t].pc = "probe"
    /\ \E head \in HeadResponses :
        \E mresp \in FallbackResponses(threads[t].dirmtime, head) :
         \E res \in {FileInit(threads[t].path, threads[t].dirmtime, readdir_cache,
                              NoListing, head, mresp)} :
            /\ file' = IF res.exc = "none" THEN res.file ELSE file
            /\ last' = Call("resolve", <<threads[t].path, threads[t].dirmtime>>, res.exc,
                            <<>>, threads[t].gets \o res.gets, TRUE)
            /\ calls' = 1 - calls
    /\ threads' = [threads EXCEPT ![t] = IdleThread]
    /\ UNCHANGED <<readdir_cache, stores, page, parsed>>

InitConc == Init

NextConc ==
    \E t \in Threads :
        BeginResolve(t) \/ FetchListing(t) \/ StoreListing(t) \/ FinishResolve(t)

SpecConc == InitConc /\ [][NextConc]_vars

----------------------------------------------------------------------------
(* Properties of read and attributes (SpecFile). *)

IsRead == last.op = "read"
ReadOffset == last.args[1]
ReadLength == last.args[2]

\* The object stands for a regular file whose probe succeeded and gave
\* the remote file's size.
RegularFile == file.status = 200 /\ ~file.is_dir /\ file.size = FileSize

\* The bytes offset .. offset+length-1 all lie in one 1 MiB-aligned block.
WithinOneBlock(offset, length) == offset \div MB = (offset + length - 1) \div MB

\* As far as the state shows, the server has honoured every Range request
\* of the object: no range GET of the last call was answered 200 (Range
\* ignored), and every buffered block is what an honouring server sends.
RangeHonoured ==
    /\ \A i \in DOMAIN last.gets : last.gets[i].status # 200
    /\ \A b \in DOMAIN file.readbuffer :
          file.readbuffer[b] = Honoured(b * MB, b * MB + 1023 * KB).content

\* C1: on a regular file, a read of a range inside the file, against a server that honours
\* Range requests, fails with EIO or returns exactly the bytes
\* offset .. offset+length-1 of the remote file, never fewer.
C1_FullRangeOrError ==
    (IsRead /\ RegularFile /\ ReadOffset + ReadLength <= file.size /\ RangeHonoured)
        => \/ last.exc = "EIO"
           \/ last.value = Bytes("file", ReadOffset, ReadLength)

\* C2: on a regular file, a read whose range GET is answered with a status other than 200 or
\* 206 fails with EIO and returns no data, on either path and whatever
\* the status of the probe was.
C2_BadStatusIsEIO ==
    (IsRead /\ RegularFile
       /\ \E i \in DOMAIN last.gets : last.gets[i].status \notin {200, 206})
        => last.exc = "EIO" /\ last.value = Bytes("file", 0, 0)

\* C3: on a regular file, two consecutive successful reads of the same (offset, length) lying
\* within one block, the first on an empty block buffer, send exactly one
\* range GET in total.
C3_SecondReadFromCache ==
    [][(/\ IsRead /\ RegularFile /\ last.exc = "none" /\ last.cold
        /\ WithinOneBlock(ReadOffset, ReadLength)
        /\ calls' # calls
        /\ last'.op = "read" /\ last'.exc = "none" /\ last'.args = last.args)
       => Len(last.gets) + Len(last'.gets) = 1]_vars

\* The bytes offset .. offset+length-1 lie in two or more blocks.
SpansBlocks(offset, length) == offset \div MB < (offset + length - 1) \div MB

\* C4: a read spanning two or more blocks sends exactly one range GET, for
\* [offset, min(size, offset+length-1)] (so for offset .. offset+length-1
\* when the request lies inside the file), whatever the buffer holds.
C4_SpanningReadOneExactGet ==
    (IsRead /\ SpansBlocks(ReadOffset, ReadLength))
        => /\ Len(last.gets) = 1
           /\ last.gets[1].method = "GET"
           /\ last.gets[1].url = <<"/">> \o file.path
           /\ last.gets[1].lo = ReadOffset
           /\ last.gets[1].hi = Min(file.size, ReadOffset + ReadLength - 1)
           /\ (ReadOffset + ReadLength <= file.size
                 => last.gets[1].hi = ReadOffset + ReadLength - 1)

\* C4 witness: the spanning read of bytes 1048570-1048589 of the 2 MiB
\* file, made while the buffer holds a block.
C4_Witness ==
    /\ IsRead /\ last.args = <<1048570, 20>>
    /\ file.size = 2 * MB
    /\ DOMAIN file.readbuffer # {}
    /\ last.gets[1].lo = 1048570 /\ last.gets[1].hi = 1048589

\* C5: on a regular file, a single-block read that misses the buffer for block b sends one
\* range GET for the full aligned block [b*1048576, b*1048576 + 1048575]
\* and on 200 or 206 stores the body under key b.
C5_FullBlockFetched ==
    (IsRead /\ RegularFile /\ \E i \in DOMAIN last.gets : last.gets[i].why = "block")
        => LET b == ReadOffset \div MB IN
           /\ Len(last.gets) = 1
           /\ last.gets[1].lo = b * MB
           /\ last.gets[1].hi = b * MB + MB - 1
           /\ (last.gets[1].status \in {200, 206} => b \in DOMAIN file.readbuffer)

\* C10: an object whose probe was not answered 200 has size 0 and every
\* attributes() call on it fails with ENOENT, whatever was read before;
\* an object whose probe was answered 200 never fails with ENOENT.
C10_ProbeStatusDecidesAttributes ==
    /\ file.status # 200 => file.size = 0
    /\ last.op = "attributes" => (last.exc = "ENOENT" <=> file.status # 200)

\* C10 witness: attributes() failing on an object whose probe was refused,
\* after a read on it succeeded.
C10_Witness ==
    /\ last.op = "attributes" /\ last.exc = "ENOENT"
    /\ file.status = 403
    /\ DOMAIN file.readbuffer # {}

----------------------------------------------------------------------------
(* Properties of the listing cache (Spec). *)

IsResolve == last.op = "resolve"
Populates(call) == {i \in DOMAIN call.gets : call.gets[i].why = "populate"}

\* C6: once a listing for directory p is stored, every later constructor
\* call for a path under p uses it and sends no GET to populate it; a
\* listing is stored for p at most once.
C6_ListingFetchedOnce ==
    [][(calls' # calls /\ last'.op = "resolve")
       => LET p == ParentDir(last'.args[1]) IN
          /\ p \in DOMAIN readdir_cache
               => /\ Populates(last') = {}
                  /\ readdir_cache'[p] = readdir_cache[p]
          /\ \A d \in DOMAIN stores' : stores'[d] <= 1]_vars

\* C6 witness: a constructor call that succeeded on the stored listing,
\* without a populating GET.
C6_Witness ==
    /\ IsResolve /\ last.exc = "none"
    /\ Populates(last) = {}
    /\ Count(stores, ParentDir(last.args[1])) = 1

\* C7: a listing GET answered with a non-success status makes the
\* constructor call fail with FetchError and stores no listing.
C7_FailedListingRaises ==
    (IsResolve /\ \E i \in Populates(last) : last.gets[i].status # 200)
        => /\ last.exc = "FetchError"
           /\ ParentDir(last.args[1]) \notin DOMAIN readdir_cache

----------------------------------------------------------------------------
(* Properties of the parser (SpecParse). *)

Separators(t) == {i \in DOMAIN t : t[i] = "/"}

\* A name as the index page writes it: no separator but, for a
\* directory, one at the end.
WellFormedText(t) == t # <<>> /\ t # <<"/">> /\ Separators(t) \subseteq {Len(t)}

WellFormedRow(x) ==
    \/ x.ntd = 0
    \/ /\ x.ntd >= 3 /\ x.img /\ x.a
       /\ x.alt \in Alts
       /\ WellFormedText(x.text)

WellFormed(rows) == \A i \in DOMAIN rows : WellFormedRow(rows[i])

\* The page lacks the table structure: no row at all, or a row of cells
\* without the icon image or the link cell.
LacksStructure(rows) ==
    \/ rows = <<>>
    \/ \E i \in DOMAIN rows : rows[i].ntd > 0 /\ (~rows[i].img \/ rows[i].ntd < 2 \/ ~rows[i].a)

\* C8: parsing a page that lacks the table structure fails with ParseError.
C8_MalformedPageRaisesParseError ==
    (parsed # Pending /\ LacksStructure(page)) => parsed.exc = "ParseError"

WithoutTrailingSeparator(t) == IF t # <<>> /\ Last(t) = "/" THEN Front(t) ELSE t

EntryRows(rows) == SelectSeq(rows, LAMBDA x : x.ntd > 0 /\ x.alt # "[PARENTDIR]")

ExpectedEntries(rows) ==
    [i \in 1..Len(EntryRows(rows)) |->
        <<WithoutTrailingSeparator(EntryRows(rows)[i].text), EntryRows(rows)[i].alt = "[DIR]">>]

\* C9: for a well-formed page the contents are "." and ".." (directories)
\* followed by one entry per data row that is not [PARENTDIR], in page
\* order, flagged directory exactly when the alt text is [DIR], named by
\* the link text without its trailing separator.
C9_ContentsOfWellFormedPage ==
    (parsed # Pending /\ WellFormed(page))
        => parsed = Returned(<< <<Dot, TRUE>>, <<DotDot, TRUE>> >> \o ExpectedEntries(page))

\* C9 witness: a parsed well-formed page with a [PARENTDIR] row and a
\* directory row.
C9_Witness ==
    /\ parsed # Pending /\ WellFormed(page) /\ Len(page) = 2
    /\ page[1].alt = "[PARENTDIR]" /\ page[1].ntd > 0
    /\ page[2].alt = "[DIR]" /\ page[2].text = <<"a", "/">>
    /\ parsed.value[3] = << <<"a">>, TRUE >>

----------------------------------------------------------------------------
(* Properties of the constructor (Spec). *)

\* The last call constructed `file`.
Resolved == IsResolve /\ last.exc = "none"
ResolvedPath == last.args[1]
ResolvedDirmtime == last.args[2]

\* The requests of the last call sent for the given purpose, and the
\* answer to the first of them.
Sent(why) == {i \in DOMAIN last.gets : last.gets[i].why = why}
AnswerTo(why) == last.gets[CHOOSE i \in Sent(why) : TRUE].answer

\* The probe succeeded and carried no Last-Modified header.
ProbedWithoutLastModified ==
    /\ Resolved
    /\ AnswerTo("probe").status = 200
    /\ AnswerTo("probe").lastmod = NoHeader

\* The component of the path after its last separator.
LastComponent(path) ==
    LET seps == Separators(path)
    IN IF seps = {} THEN path
       ELSE SubSeq(path, (CHOOSE i \in seps : \A j \in seps : j <= i) + 1, Len(path))

\* The rows of a page that would give an entry, by position.
EntryPositions(rows) ==
    {i \in DOMAIN rows : rows[i].ntd > 0 /\ rows[i].alt # "[PARENTDIR]"}

\* The timestamp of the last entry row of the page whose link text
\* contains the name; NoneTime if there is none.
ContainingRowTime(rows, name) ==
    LET m == {i \in EntryPositions(rows) : Contains(name, rows[i].text)}
    IN IF m = {} THEN NoneTime
       ELSE rows[CHOOSE i \in m : \A j \in m : j <= i].mtime

\* The timestamp of the entry row of the page whose name is the given
\* one; NoneTime if there is none.
NamedRowTime(rows, name) ==
    LET m == {i \in EntryPositions(rows) : WithoutTrailingSeparator(rows[i].text) = name}
    IN IF m = {} THEN NoneTime
       ELSE rows[CHOOSE i \in m : TRUE].mtime

\* The parent's cached listing has an entry for the resolved name.
Listed ==
    \E i \in DOMAIN readdir_cache[ParentDir(ResolvedPath)] :
        readdir_cache[ParentDir(ResolvedPath)][i][1] = LastComponent(ResolvedPath)

\* C11 as stated, for a directory its parent's listing has a row for:
\* probed without Last-Modified it gets an unset mtime when dirmtime is
\* true and the time of the call when dirmtime is false.
C11_DirectoryMtimeUnset ==
    (ProbedWithoutLastModified /\ file.is_dir /\ Listed)
        => file.mtime = IF ResolvedDirmtime THEN NoneTime ELSE Now

\* C11 as amended: with dirmtime true the mtime is the one the fallback
\* takes from the re-fetched parent listing, the timestamp of the last
\* entry row whose link text contains the directory's name, and unset
\* only when no row does; with dirmtime false it is the time of the call.
C11_DirectoryMtimeFromListing ==
    (ProbedWithoutLastModified /\ file.is_dir)
        => IF ResolvedDirmtime
           THEN /\ Sent("mtime") # {}
                /\ file.mtime = ContainingRowTime(AnswerTo("mtime").rows,
                                                  LastComponent(ResolvedPath))
           ELSE file.mtime = Now /\ Sent("mtime") = {}

\* C11 witness: directory d resolved with dirmtime true, no Last-Modified
\* header, the listing giving its row's timestamp.
C11_Witness ==
    /\ ProbedWithoutLastModified /\ file.is_dir
    /\ ResolvedPath = <<"d">> /\ ResolvedDirmtime
    /\ file.mtime = 10

\* The probe of a regular file listed by its parent: 200, a Content-Length,
\* no Last-Modified.
FileProbedWithLength ==
    /\ ProbedWithoutLastModified /\ ~file.is_dir /\ Listed
    /\ AnswerTo("probe").clen # NoHeader

\* C12 as stated: such a file gets the Content-Length as size and the
\* timestamp of its row in the parent's listing as mtime.
C12_FileMtimeFromListing ==
    FileProbedWithLength
        => /\ file.size = AnswerTo("probe").clen
           /\ file.mtime = NamedRowTime(IndexPage, LastComponent(ResolvedPath))

\* C12 as amended: such a file gets the Content-Length as size and the
\* time of the call as mtime, for either value of dirmtime; the listing
\* is not fetched for its timestamp.
C12_FileMtimeIsCallTime ==
    FileProbedWithLength
        => /\ file.size = AnswerTo("probe").clen
           /\ file.mtime = Now
           /\ Sent("mtime") = {}

\* C12 witness: file f, listed with timestamp 20, resolved with dirmtime
\* true.
C12_Witness ==
    /\ FileProbedWithLength /\ ResolvedPath = <<"f">> /\ ResolvedDirmtime
    /\ NamedRowTime(IndexPage, <<"f">>) = 20
    /\ file.size = FileSize /\ file.mtime = Now

\* The path up to its last separator: the parent directory.
ParentPath(path) ==
    LET seps == Separators(path)
    IN IF seps = {} THEN <<>>
       ELSE SubSeq(path, 1, (CHOOSE i \in seps : \A j \in seps : j <= i) - 1)

\* The last component of the resolved path is a directory-flagged entry
\* of the parent's cached listing.
ListedAsDirectory ==
    \E i \in DOMAIN readdir_cache[ParentPath(ResolvedPath)] :
        readdir_cache[ParentPath(ResolvedPath)][i] = <<LastComponent(ResolvedPath), TRUE>>

\* C18: for every resolved path, is_dir holds exactly when the last
\* component is a directory-flagged entry of the parent's cached listing
\* or is empty; the probe goes to "/" + path, with a trailing "/" exactly
\* when is_dir holds; both whatever the probe is answered.
C18_DirectoryFlagAndProbeUrl ==
    Resolved
        => /\ file.is_dir <=> (ListedAsDirectory \/ LastComponent(ResolvedPath) = <<>>)
           /\ file.url = <<"/">> \o ResolvedPath \o (IF file.is_dir THEN <<"/">> ELSE <<>>)
           /\ Cardinality(Sent("probe")) = 1
           /\ \A i \in Sent("probe") :
                 last.gets[i].method = "HEAD" /\ last.gets[i].url = file.url

\* C18 witness: the mount root, listed nowhere, resolved as a directory
\* and probed at "//", the probe answered 404.
C18_Witness ==
    /\ Resolved /\ ResolvedPath = <<>> /\ ~ListedAsDirectory
    /\ file.is_dir /\ file.url = <<"/", "/">>
    /\ AnswerTo("probe").status = 404

\* C19: when the constructor re-fetches the parent's page for the mtime,
\* the mtime it ends with is the timestamp of the row whose name equals
\* the resolved filename, and is unset when no row has that name.
C19_MtimeOfTheNamedRow ==
    (Resolved /\ Sent("mtime") # {})
        => file.mtime = NamedRowTime(AnswerTo("mtime").rows, LastComponent(ResolvedPath))

----------------------------------------------------------------------------
(* Properties of the cache under concurrent calls (SpecConc). *)

\* C17: under any interleaving of concurrent constructor calls for paths
\* below one parent, a listing once stored in readdir_cache is never
\* replaced or changed.
C17_StoredListingIsFinal ==
    [][\A p \in DOMAIN readdir_cache :
          p \in DOMAIN readdir_cache' /\ readdir_cache'[p] = readdir_cache[p]]_vars

----------------------------------------------------------------------------
(* Properties of the block buffer (SpecFile). *)

\* The step is a read(length, offset) call.
ReadStep == calls' # calls /\ last'.op = "read"

\* The call read(length, offset) is handled on the single-block path
\* (line 103) for block b.
OnBlockPath(args, b) ==
    MbStart(args[1]) = MbEnd(args[1], args[2]) /\ MbStart(args[1]) = b

\* The blocks the bytes offset .. offset+length-1 lie in.
Touched(args) == (args[1] \div MB) .. ((args[1] + args[2] - 1) \div MB)

\* C13: once the buffer holds content for block b, no later call changes
\* or drops it, no later read sends a GET for block b's interval, and a
\* read handled on the single-block path for b sends no GET at all.
C13_BufferedBlockIsFinal ==
    [][\A b \in DOMAIN file.readbuffer :
          /\ b \in DOMAIN file'.readbuffer
          /\ file'.readbuffer[b] = file.readbuffer[b]
          /\ ReadStep =>
               /\ \A i \in DOMAIN last'.gets :
                     ~(last'.gets[i].lo = BlockLo(b) /\ last'.gets[i].hi = BlockHi(b))
               /\ OnBlockPath(last'.args, b) => last'.gets = <<>>]_vars

\* C13 witness: a read of block 1 served from the buffer while the buffer
\* holds blocks 0 and 1.
C13_Witness ==
    /\ IsRead /\ last.exc = "none" /\ last.gets = <<>>
    /\ OnBlockPath(last.args, 1)
    /\ DOMAIN file.readbuffer = {0, 1}

\* C14: a read handled on the spanning path, answered with success or
\* failure, leaves the buffer as it was; after a spanning read on an empty
\* buffer a single-block read of a block it touched sends its block GET.
C14_SpanningReadKeepsBuffer ==
    [][/\ (ReadStep /\ MbStart(last'.args[1]) # MbEnd(last'.args[1], last'.args[2]))
            => file'.readbuffer = file.readbuffer
       /\ (/\ IsRead /\ last.cold /\ SpansBlocks(ReadOffset, ReadLength)
           /\ ReadStep
           /\ \E b \in Touched(last.args) : OnBlockPath(last'.args, b))
            => /\ Len(last'.gets) = 1
               /\ last'.gets[1].why = "block"
               /\ last'.gets[1].lo = BlockLo(MbStart(last'.args[1]))]_vars

\* C14 witness: the read of bytes 1048570-1048589, answered 206, on an
\* empty buffer, which is still empty afterwards.
C14_Witness ==
    /\ IsRead /\ last.args = <<1048570, 20>> /\ last.cold
    /\ last.exc = "none" /\ last.gets[1].status = 206
    /\ DOMAIN file.readbuffer = {}

\* The last call was a read whose block GET was refused.
BlockFetchFailed ==
    /\ IsRead /\ Len(last.gets) = 1
    /\ last.gets[1].why = "block" /\ last.gets[1].status \notin {200, 206}

\* C15: a read whose block GET is answered with a status other than 200
\* or 206 raises EIO after that one GET and leaves the buffer as it was,
\* the block absent; the next read of that block sends one new block GET
\* and succeeds when that GET is answered 200 or 206.
C15_FailedBlockFetchIsLocal ==
    [][/\ (/\ ReadStep
           /\ \E i \in DOMAIN last'.gets :
                 last'.gets[i].why = "block" /\ last'.gets[i].status \notin {200, 206})
            => /\ last'.exc = "EIO"
               /\ Len(last'.gets) = 1
               /\ file'.readbuffer = file.readbuffer
               /\ MbStart(last'.args[1]) \notin DOMAIN file'.readbuffer
       /\ (/\ BlockFetchFailed
           /\ ReadStep
           /\ OnBlockPath(last'.args, MbStart(ReadOffset)))
            => /\ Len(last'.gets) = 1
               /\ last'.gets[1].why = "block"
               /\ last'.gets[1].lo = BlockLo(MbStart(ReadOffset))
               /\ (last'.gets[1].status \in {200, 206}
                     => /\ last'.exc = "none"
                        /\ MbStart(ReadOffset) \in DOMAIN file'.readbuffer)]_vars

\* C15 witness: a block fetch for block 1 refused with 404 while the
\* buffer holds block 0.
C15_Witness ==
    /\ BlockFetchFailed /\ last.exc = "EIO"
    /\ MbStart(ReadOffset) = 1 /\ last.gets[1].status = 404
    /\ DOMAIN file.readbuffer = {0}

\* C16: on a regular file, a single-block read whose block GET is answered
\* 200 with the whole file returns the file's bytes
\* offset .. offset+length-1, and the buffer then holds block b's content
\* under key b.
C16_FullContentFallback ==
    (/\ IsRead /\ RegularFile
     /\ ReadOffset + ReadLength <= file.size
     /\ Len(last.gets) = 1 /\ last.gets[1].why = "block"
     /\ last.gets[1].status = 200 /\ last.gets[1].answer.content = WholeFile)
        => LET b == ReadOffset \div MB IN
           /\ last.value = Bytes("file", ReadOffset, ReadLength)
           /\ b \in DOMAIN file.readbuffer
           /\ file.readbuffer[b] = Bytes("file", b * MB, Min(MB, file.size - b * MB))

\* The last call was a read on an empty buffer, handled on the
\* single-block path.
ColdBlockRead ==
    /\ IsRead /\ last.cold
    /\ MbStart(ReadOffset) = MbEnd(ReadOffset, ReadLength)

============================================================================
